---- MODULE Spec2Model ----
(***************************************************************************)
(* A model of task_manager.py: the JSON task store, the three mutators     *)
(* and the interactive loop run(), with its exception handlers that        *)
(* restart the loop by calling run() again.                                *)
(*                                                                         *)
(* Text is a sequence of one-character strings, so that lower() and        *)
(* strip() are computed character by character.  A Python value handed to  *)
(* a function is a record [type, chars]; input() only ever yields "str".   *)
(* A dict is a sequence of entries [k, v] in insertion order.  The store   *)
(* file is a record [kind, obj]: obj is the sequence of members of the     *)
(* JSON object, each a key and the literal token true / false.             *)
(***************************************************************************)
EXTENDS Integers, Sequences, FiniteSets, TLC

(* ------------------------------ bounds -------------------------------- *)

\* Members of the store file the program is started on.
MaxFileLen == 2

\* Nested invocations of run() the interpreter allows before it raises
\* RecursionError (sys.getrecursionlimit(), 1000 by default), scaled down.
MaxDepth == 3

(* ------------------------------- text --------------------------------- *)

UpperChars == <<"A", "B", "E", "Y">>
LowerChars == <<"a", "b", "e", "y">>

\* str.lower() on one character.
LowerChar(c) ==
    IF \E i \in DOMAIN UpperChars : UpperChars[i] = c
    THEN LowerChars[CHOOSE i \in DOMAIN UpperChars : UpperChars[i] = c]
    ELSE c

\* str.lower()
lower(s) == [i \in 1..Len(s) |-> LowerChar(s[i])]

IsSpace(c) == c = " "

\* str.strip()
strip(s) ==
    LET keep == {i \in 1..Len(s) : ~IsSpace(s[i])}
        lo == CHOOSE i \in keep : \A j \in keep : i <= j
        hi == CHOOSE i \in keep : \A j \in keep : j <= i
    IN IF keep = {} THEN <<>> ELSE SubSeq(s, lo, hi)

Str(s) == [type |-> "str", chars |-> s]

\* A value that is not a string (an int, None, ...).
NonStr == [type |-> "int", chars |-> <<>>]

\* What the user can type at a "name" prompt.
Names == { <<>>, <<" ">>, <<"a">>, <<"A">>, <<"b">>, <<"A", "b">> }

\* What the user can type at the menu prompt.
Commands == { <<"l">>, <<"c">>, <<"a">>, <<"r">>, <<"e">>, <<"E">>, <<"x">> }

\* What the user can type at an "Are you sure? (y/n)" prompt.
Answers == { <<"y">>, <<"Y">>, <<"n">> }

(* --------------------------- validate_input --------------------------- *)

validate_input_no_strip(input) == input.type = "str" /\ input.chars # <<>>

validate_input(input) == input.type = "str" /\ strip(input.chars) # <<>>

(* ------------------------------- dicts -------------------------------- *)

Keys(d) == {d[i].k : i \in DOMAIN d}

Has(d, k) == k \in Keys(d)

Get(d, k) == d[CHOOSE i \in DOMAIN d : d[i].k = k].v

DictSet_moves_to_end(d, k, v) ==
    Append(SelectSeq(d, LAMBDA e : e.k # k), [k |-> k, v |-> v])

\* d[k] = v, d.update({k: v}): an existing key keeps its position.
DictSet(d, k, v) ==
    IF Has(d, k)
    THEN [i \in DOMAIN d |-> IF d[i].k = k THEN [k |-> k, v |-> v] ELSE d[i]]
    ELSE Append(d, [k |-> k, v |-> v])

\* del d[k]
DictDel(d, k) == SelectSeq(d, LAMBDA e : e.k # k)

(* ------------------------------- JSON --------------------------------- *)

BoolLit(v) == IF v THEN "true" ELSE "false"

LitBool(lit) == lit = "true"

\* json.dump(tasks, f, indent=2): one member per entry, in dict order.
JsonEncode(d) == [i \in DOMAIN d |-> [k |-> d[i].k, lit |-> BoolLit(d[i].v)]]

\* json.load on a file holding a JSON object: a dict in file order.
JsonDecode(obj) == [i \in DOMAIN obj |-> [k |-> obj[i].k, v |-> LitBool(obj[i].lit)]]

ObjectFile(obj) == [kind |-> "object", obj |-> obj]

MissingFile == [kind |-> "missing", obj |-> <<>>]

\* Content that is not JSON.
GarbageFile == [kind |-> "garbage", obj |-> <<>>]

\* Valid JSON that is a list of numbers, such as [1].
ListFile == [kind |-> "list", obj |-> <<>>]

\* Valid JSON that is a number, such as 5.
NumberFile == [kind |-> "number", obj |-> <<>>]

(* ----------------------------- exceptions ----------------------------- *)

\* The classes strictly above each exception class that the program meets.
Bases(exc) ==
    CASE exc = "FileNotFoundError" -> {"OSError", "Exception"}
      [] exc = "JSONDecodeError" -> {"ValueError", "Exception"}
      [] exc = "TypeError" -> {"Exception"}
      [] exc = "ValueError" -> {"Exception"}
      [] exc = "AttributeError" -> {"Exception"}
      [] exc = "RecursionError" -> {"RuntimeError", "Exception"}
      [] OTHER -> {}

IsInstance(exc, cls) == exc = cls \/ cls \in Bases(exc)

(* ------------------------------ the store ----------------------------- *)

\* The outcome of a function that works on the store: the dict and the file
\* as it leaves them, the exception it raises ("none": it returns), the line
\* it prints last and whether it called dump_tasks.
Outcome(t, f, exc, out, wrote) ==
    [tasks |-> t, file |-> f, exc |-> exc, out |-> out, wrote |-> wrote]

RECURSIVE LowerKeysFrom(_, _, _)
\* {task.lower(): tasks[task] for task in tasks}, from entry i on.
LowerKeysFrom(d, i, acc) ==
    IF i > Len(d) THEN acc
    ELSE LowerKeysFrom(d, i + 1, DictSet(acc, lower(d[i].k), d[i].v))

RECURSIVE FirstWinsFrom(_, _, _)
FirstWinsFrom(d, i, acc) ==
    IF i > Len(d) THEN acc
    ELSE FirstWinsFrom(d, i + 1,
             IF Has(acc, lower(d[i].k)) THEN acc
             ELSE DictSet(acc, lower(d[i].k), d[i].v))

LowerKeys_first_wins(d) == FirstWinsFrom(d, 1, <<>>)

LowerKeys(d) == LowerKeysFrom(d, 1, <<>>)

load_tasks_same_case(f) ==
    CASE f.kind = "missing" -> [exc |-> "FileNotFoundError", tasks |-> <<>>]
      [] f.kind = "garbage" -> [exc |-> "JSONDecodeError", tasks |-> <<>>]
      [] f.kind = "list" -> [exc |-> "AttributeError", tasks |-> <<>>]
      [] f.kind = "number" -> [exc |-> "TypeError", tasks |-> <<>>]
      [] OTHER -> [exc |-> "none", tasks |-> JsonDecode(f.obj)]

\* open() raises FileNotFoundError, json.load raises JSONDecodeError; on a
\* list of numbers task.lower() raises AttributeError, on a number the
\* iteration raises TypeError.
load_tasks(f) ==
    CASE f.kind = "missing" -> [exc |-> "FileNotFoundError", tasks |-> <<>>]
      [] f.kind = "garbage" -> [exc |-> "JSONDecodeError", tasks |-> <<>>]
      [] f.kind = "list" -> [exc |-> "AttributeError", tasks |-> <<>>]
      [] f.kind = "number" -> [exc |-> "TypeError", tasks |-> <<>>]
      [] OTHER -> [exc |-> "none", tasks |-> LowerKeys(JsonDecode(f.obj))]

dump_tasks_drop_last(f, t) ==
    ObjectFile(JsonEncode(IF t = <<>> THEN t ELSE SubSeq(t, 1, Len(t) - 1)))

\* open(file_path, "w") replaces whatever the file held.
dump_tasks(f, t) == ObjectFile(JsonEncode(t))

(* ------------------------------ mutators ------------------------------ *)

add_task_no_lower(f, t, name) ==
    IF name.type # "str" THEN Outcome(t, f, "AttributeError", "", FALSE)
    ELSE LET n == name.chars
         IN IF validate_input(Str(n)) /\ ~Has(t, n)
            THEN LET t2 == DictSet(t, n, FALSE)
                 IN Outcome(t2, dump_tasks(f, t2), "none", "Task was added.", TRUE)
            ELSE Outcome(t, f, "none", "Task already exists.", FALSE)

add_task_overwrites(f, t, name) ==
    IF name.type # "str" THEN Outcome(t, f, "AttributeError", "", FALSE)
    ELSE LET n == lower(name.chars)
         IN IF validate_input(Str(n))
            THEN LET t2 == DictSet(t, n, FALSE)
                 IN Outcome(t2, dump_tasks(f, t2), "none", "Task was added.", TRUE)
            ELSE Outcome(t, f, "none", "Task already exists.", FALSE)

\* name.lower() raises AttributeError on a value that is not a string.
add_task(f, t, name) ==
    IF name.type # "str" THEN Outcome(t, f, "AttributeError", "", FALSE)
    ELSE LET n == lower(name.chars)
         IN IF validate_input(Str(n)) /\ ~Has(t, lower(n))
            THEN LET t2 == DictSet(t, n, FALSE)
                 IN Outcome(t2, dump_tasks(f, t2), "none", "Task was added.", TRUE)
            ELSE Outcome(t, f, "none", "Task already exists.", FALSE)

remove_task_no_validation(f, t, name) ==
    LET n == lower(name.chars)
        t2 == IF Has(t, n) THEN DictDel(t, n) ELSE t
    IN IF Len(t) = Len(t2) THEN Outcome(t2, f, "ValueError", "", FALSE)
       ELSE Outcome(t2, dump_tasks(f, t2), "none", "Task removed.", TRUE)

remove_task_no_lower(f, t, name) ==
    IF ~validate_input(name) THEN Outcome(t, f, "TypeError", "", FALSE)
    ELSE LET n == name.chars
             t2 == IF Has(t, n) THEN DictDel(t, n) ELSE t
         IN IF Len(t) = Len(t2) THEN Outcome(t2, f, "ValueError", "", FALSE)
            ELSE Outcome(t2, dump_tasks(f, t2), "none", "Task removed.", TRUE)

remove_task_silent(f, t, name) ==
    IF ~validate_input(name) THEN Outcome(t, f, "TypeError", "", FALSE)
    ELSE LET n == lower(name.chars)
             t2 == IF Has(t, n) THEN DictDel(t, n) ELSE t
         IN Outcome(t2, dump_tasks(f, t2), "none", "Task removed.", TRUE)

remove_task(f, t, name) ==
    IF ~validate_input(name) THEN Outcome(t, f, "TypeError", "", FALSE)
    ELSE LET prev_length == Len(t)
             n == lower(name.chars)
             t2 == IF Has(t, n) THEN DictDel(t, n) ELSE t
             new_length == Len(t2)
         IN IF prev_length = new_length
            THEN Outcome(t2, f, "ValueError", "", FALSE)
            ELSE Outcome(t2, dump_tasks(f, t2), "none", "Task removed.", TRUE)

change_complete_sets_true(f, t, name) ==
    IF ~validate_input(name) THEN Outcome(t, f, "TypeError", "", FALSE)
    ELSE LET n == lower(name.chars)
         IN IF ~Has(t, n) THEN Outcome(t, f, "ValueError", "", FALSE)
            ELSE LET t2 == DictSet(t, n, TRUE)
                 IN Outcome(t2, dump_tasks(f, t2), "none",
                            "Task changed to completed.", TRUE)

change_complete(f, t, name) ==
    IF ~validate_input(name) THEN Outcome(t, f, "TypeError", "", FALSE)
    ELSE LET n == lower(name.chars)
             found == Has(t, n)
             t2 == IF found THEN DictSet(t, n, ~Get(t, n)) ELSE t
             completed == found /\ Get(t2, n)
         IN IF ~found THEN Outcome(t2, f, "ValueError", "", FALSE)
            ELSE Outcome(t2, dump_tasks(f, t2), "none",
                         IF completed THEN "Task changed to completed."
                         ELSE "Task changed to uncompleted.", TRUE)

(* ------------------------------ the loop ------------------------------ *)

VARIABLES
    file,   \* the store file
    tasks,  \* the dict of the most recent cycle of run()
    pc,     \* "load": at the top of the while loop; "prompt": in input() for
            \* the action; "returning": the innermost run() has left its
            \* while loop; "terminated": the outermost run() returned;
            \* "crashed": an exception left run()
    depth,  \* the number of nested invocations of run()
    last,   \* what the most recent finished cycle (or direct call) did
    prev,   \* the dict and the file as the most recent command found them
    pair    \* history: what the last two commands, taken together, were

vars == <<file, tasks, pc, depth, last, prev, pair>>

\* The except clauses of run(), in the order they are written.
ExceptClauses_value_error_first ==
    <<"FileNotFoundError", "ValueError", "JSONDecodeError", "TypeError", "Exception">>

ExceptClauses ==
    <<"FileNotFoundError", "JSONDecodeError", "TypeError", "ValueError", "Exception">>

\* The first clause that matches the exception.
Handler(exc) ==
    LET hits == {i \in DOMAIN ExceptClauses : IsInstance(exc, ExceptClauses[i])}
    IN ExceptClauses[CHOOSE i \in hits : \A j \in hits : i <= j]

HandlerResets_never(clause) == FALSE

HandlerResets_always(clause) == TRUE

\* The clauses that call dump_tasks(file_path, {}).
HandlerResets(clause) == clause \in {"FileNotFoundError", "JSONDecodeError"}

\* The line each clause prints.
HandlerOut(clause) ==
    CASE clause = "FileNotFoundError" -> "New tasks file was created. Try again."
      [] clause = "JSONDecodeError" ->
           "There was something wrong with the tasks file. Tasks were reset. Try again."
      [] clause = "TypeError" -> "Task name must be a unique, non-empty string."
      [] clause = "ValueError" -> "Task not in tasks list."
      [] OTHER -> "Something went wrong. Try again."

\* The record of a cycle: how far it got ("load", "command"), the action
\* typed (lower-cased), the name and the confirmation typed, the exception
\* raised in the try block, the line printed last, whether the file was written.
Cycle(stage, action, name, sure, exc, out, wrote) ==
    [stage |-> stage, action |-> action, name |-> name, sure |-> sure,
     exc |-> exc, out |-> out, wrote |-> wrote]

NoName == Str(<<>>)

\* History only: two commands in succession on the same (lower-cased) name.
Pair(first, action, name, sure, r) ==
    LET same == first.stage = "command" /\ first.exc = "none"
                  /\ lower(first.name.chars) = lower(name.chars)
    IN CASE same /\ first.action = <<"c">> /\ action = <<"c">> /\ r.exc = "none"
              -> "toggle-toggle"
         [] same /\ first.action = <<"a">> /\ action = <<"r">>
                 /\ lower(sure) = <<"y">> /\ first.out = "Task was added."
              -> "add-remove"
         [] same /\ first.action = <<"a">> /\ action = <<"r">>
                 /\ lower(sure) = <<"y">> /\ first.out # "Task was added."
              -> "rejected-add-remove"
         [] OTHER -> "none"

\* Whether a further invocation of run() fits under the recursion limit.
CanRecurse_unbounded == TRUE

CanRecurse == depth < MaxDepth

\* An exception raised in the try block with the store as r leaves it: the
\* matching clause runs and calls run() again.  At the recursion limit that
\* call raises RecursionError inside the handler, which no clause of any
\* enclosing run() catches.
Except(stage, action, name, sure, r) ==
    LET clause == Handler(r.exc)
    IN /\ file' = IF HandlerResets(clause) THEN dump_tasks(r.file, <<>>) ELSE r.file
       /\ tasks' = r.tasks
       /\ last' = Cycle(stage, action, name, sure, r.exc, HandlerOut(clause),
                        r.wrote \/ HandlerResets(clause))
       /\ IF CanRecurse
          THEN depth' = depth + 1 /\ pc' = "load"
          ELSE depth' = depth /\ pc' = "crashed"

\* The end of a cycle whose command left the store as r.
Finish(action, name, sure, r) ==
    /\ prev' = [tasks |-> tasks, file |-> file]
    /\ pair' = Pair(last, action, name, sure, r)
    /\ IF r.exc = "none"
       THEN /\ file' = r.file
            /\ tasks' = r.tasks
            /\ last' = Cycle("command", action, name, sure, "none", r.out, r.wrote)
            /\ pc' = "load"
            /\ depth' = depth
       ELSE Except("command", action, name, sure, r)

\* tasks = load_tasks(file_path)
Load ==
    /\ pc = "load"
    /\ LET r == load_tasks(file)
       IN IF r.exc = "none"
          THEN /\ tasks' = r.tasks
               /\ pc' = "prompt"
               /\ UNCHANGED <<file, depth, last, prev, pair>>
          ELSE /\ Except("load", <<>>, NoName, <<>>,
                         Outcome(tasks, file, r.exc, "", FALSE))
               /\ UNCHANGED <<prev, pair>>

\* case "l"
List ==
    /\ pc = "prompt"
    /\ \E action \in Commands :
         /\ lower(action) = <<"l">>
         /\ Finish(lower(action), NoName, <<>>,
                   Outcome(tasks, file, "none", "CURRENT TASKS:", FALSE))

\* case "c"
Change ==
    /\ pc = "prompt"
    /\ \E action \in Commands, task_name \in Names :
         /\ lower(action) = <<"c">>
         /\ Finish(lower(action), Str(task_name), <<>>,
                   change_complete(file, tasks, Str(task_name)))

\* case "a"
Add ==
    /\ pc = "prompt"
    /\ \E action \in Commands, task_name \in Names :
         /\ lower(action) = <<"a">>
         /\ Finish(lower(action), Str(task_name), <<>>,
                   add_task(file, tasks, Str(task_name)))

Remove_unconfirmed ==
    /\ pc = "prompt"
    /\ \E action \in Commands, task_name \in Names, sure \in Answers :
         /\ lower(action) = <<"r">>
         /\ Finish(lower(action), Str(task_name), sure,
                   remove_task(file, tasks, Str(task_name)))

\* case "r"
Remove ==
    /\ pc = "prompt"
    /\ \E action \in Commands, task_name \in Names, sure \in Answers :
         /\ lower(action) = <<"r">>
         /\ IF lower(sure) = <<"y">>
            THEN Finish(lower(action), Str(task_name), sure,
                        remove_task(file, tasks, Str(task_name)))
            ELSE Finish(lower(action), Str(task_name), sure,
                        Outcome(tasks, file, "none", "", FALSE))

\* case "e"
End ==
    /\ pc = "prompt"
    /\ \E action \in Commands, end \in Answers :
         /\ lower(action) = <<"e">>
         /\ IF lower(end) = <<"y">>
            THEN /\ pc' = "returning"
                 /\ last' = Cycle("command", lower(action), NoName, end, "none", "", FALSE)
                 /\ prev' = [tasks |-> tasks, file |-> file]
                 /\ pair' = "none"
                 /\ UNCHANGED <<file, tasks, depth>>
            ELSE Finish(lower(action), NoName, end,
                        Outcome(tasks, file, "none", "", FALSE))

AfterHandler_loops == "load"

\* Where an invocation of run() is once the run() its handler called has
\* returned: the except clause is over and, the try statement enclosing the
\* while loop, nothing is left but to return as well.
AfterHandler == "returning"

\* break, and the return of each invocation of run() to the handler that
\* called it; the outermost returns to the module, which ends.
Unwind ==
    /\ pc = "returning"
    /\ IF depth > 1
       THEN depth' = depth - 1 /\ pc' = AfterHandler
       ELSE depth' = 0 /\ pc' = "terminated"
    /\ UNCHANGED <<file, tasks, last, prev, pair>>

\* case _
WrongLetter ==
    /\ pc = "prompt"
    /\ \E action \in Commands :
         /\ lower(action) \notin {<<"l">>, <<"c">>, <<"a">>, <<"r">>, <<"e">>}
         /\ Finish(lower(action), NoName, <<>>,
                   Outcome(tasks, file, "none", "Wrong letter provided.", FALSE))

\* The keys a store file can hold when the program starts.
FileKeys == {n \in Names : validate_input(Str(n))}

Members == [k : FileKeys, lit : {"true", "false"}]

\* JSON objects of at most MaxFileLen members with distinct keys.
RawObjects ==
    UNION {{o \in [1..n -> Members] :
              \A i, j \in 1..n : o[i].k = o[j].k => i = j} : n \in 0..MaxFileLen}

InitFiles ==
    {MissingFile, GarbageFile, ListFile, NumberFile}
        \cup {ObjectFile(o) : o \in RawObjects}

\* run("tasks.json")
Init ==
    /\ file \in InitFiles
    /\ tasks = <<>>
    /\ pc = "load"
    /\ depth = 1
    /\ last = Cycle("start", <<>>, NoName, <<>>, "none", "", FALSE)
    /\ prev = [tasks |-> <<>>, file |-> file]
    /\ pair = "none"

Next ==
    \/ Load
    \/ List
    \/ Change
    \/ Add
    \/ Remove
    \/ End
    \/ WrongLetter
    \/ Unwind

Spec == Init /\ [][Next]_vars

\* run("tasks.json") on a store file that holds {}.
InitEmpty == Init /\ file = ObjectFile(<<>>)

SpecEmpty == InitEmpty /\ [][Next]_vars

(* ---------------------------- direct calls --------------------------- *)

\* The functions called directly, outside run(), as a test would: one call of
\* a mutator, or dump_tasks followed by load_tasks.  An exception goes to the
\* caller.  pc is "call" before the call, "dumped" after dump_tasks and
\* "returned" at the end.

\* The arguments a caller can pass as a name.
Values == {Str(n) : n \in Names} \cup {NonStr}

UnitMembers == [k : Names, lit : {"true", "false"}]

\* The dicts a caller can pass: any string keys, at most MaxFileLen entries.
UnitDicts ==
    UNION {{JsonDecode(o) : o \in {m \in [1..n -> UnitMembers] :
              \A i, j \in 1..n : m[i].k = m[j].k => i = j}} : n \in 0..MaxFileLen}

InitUnit ==
    /\ tasks \in UnitDicts
    /\ file \in {MissingFile, GarbageFile, ObjectFile(JsonEncode(tasks))}
    /\ pc = "call"
    /\ depth = 0
    /\ last = Cycle("start", <<>>, NoName, <<>>, "none", "", FALSE)
    /\ prev = [tasks |-> tasks, file |-> file]
    /\ pair = "none"

\* What a direct call leaves behind.
Return(action, name, r) ==
    /\ tasks' = r.tasks
    /\ file' = r.file
    /\ last' = Cycle("call", action, name, <<>>, r.exc, r.out, r.wrote)
    /\ prev' = [tasks |-> tasks, file |-> file]
    /\ pc' = "returned"
    /\ UNCHANGED <<depth, pair>>

UnitAdd ==
    /\ pc = "call"
    /\ \E name \in Values : Return(<<"a">>, name, add_task(file, tasks, name))

UnitRemove ==
    /\ pc = "call"
    /\ \E name \in Values : Return(<<"r">>, name, remove_task(file, tasks, name))

UnitChange ==
    /\ pc = "call"
    /\ \E name \in Values : Return(<<"c">>, name, change_complete(file, tasks, name))

UnitDump ==
    /\ pc = "call"
    /\ file' = dump_tasks(file, tasks)
    /\ last' = Cycle("call", <<"d", "u", "m", "p">>, NoName, <<>>, "none", "", TRUE)
    /\ prev' = [tasks |-> tasks, file |-> file]
    /\ pc' = "dumped"
    /\ UNCHANGED <<tasks, depth, pair>>

UnitLoad ==
    /\ pc = "dumped"
    /\ LET r == load_tasks(file)
       IN /\ tasks' = r.tasks
          /\ last' = Cycle("call", <<"l", "o", "a", "d">>, NoName, <<>>, r.exc, "", FALSE)
    /\ prev' = [tasks |-> tasks, file |-> file]
    /\ pc' = "returned"
    /\ UNCHANGED <<file, depth, pair>>

\* The arguments a caller can pass to validate_input.
ValidateArgs ==
    Values \cup {Str(<<" ", "a">>), Str(<<"a", " ">>), Str(<<" ", " ">>),
                 Str(<<" ", "A", " ">>)}

\* validate_input(input); the value returned is recorded as "True" / "False".
UnitValidate ==
    /\ pc = "call"
    /\ \E input \in ValidateArgs :
         Return(<<"v">>, input,
                Outcome(tasks, file, "none",
                        IF validate_input(input) THEN "True" ELSE "False", FALSE))

NextUnit ==
    \/ UnitAdd
    \/ UnitRemove
    \/ UnitChange
    \/ UnitDump
    \/ UnitLoad
    \/ UnitValidate

SpecUnit == InitUnit /\ [][NextUnit]_vars

(* ------------------------------ properties ---------------------------- *)

\* The file holds exactly the dict t: its members in t's order, each status
\* as the literal true or false.
FileHolds(f, t) ==
    /\ f.kind = "object"
    /\ Len(f.obj) = Len(t)
    /\ \A i \in DOMAIN t :
         /\ f.obj[i].k = t[i].k
         /\ (f.obj[i].lit = "true") = t[i].v
         /\ f.obj[i].lit \in {"true", "false"}

\* A string with a character that is not whitespace.
NonBlank(chars) == \E i \in DOMAIN chars : chars[i] # " "

\* The state right after a cycle that ran command a.
JustRan(a) == last.stage = "command" /\ last.action = <<a>> /\ pc # "prompt"

\* C1: no error ends the process: it stops only in the terminated state,
\* after an 'e' command answered with an affirmative confirmation.
C1_OnlyConfirmedEndStops ==
    /\ pc # "crashed"
    /\ pc = "terminated" => last.action = <<"e">> /\ lower(last.sure) = <<"y">>

C3_CaseDuplicateRejected ==
    (/\ JustRan("a")
     /\ last.name.chars \notin Keys(prev.tasks)
     /\ lower(last.name.chars) \in Keys(prev.tasks))
    => /\ tasks = prev.tasks
       /\ file = prev.file
       /\ ~last.wrote
       /\ last.out = "Task already exists."

C3_Witness ==
    /\ JustRan("a")
    /\ last.name.chars = <<"A">>
    /\ Has(prev.tasks, <<"a">>)
    /\ last.out = "Task already exists."

\* C4: remove_task with a valid name deletes exactly the lower-cased key and
\* persists the collection when the key is present; when it is absent it
\* raises ValueError, changes nothing and writes nothing.
C4_RemoveTask ==
    (/\ JustRan("r")
     /\ lower(last.sure) = <<"y">>
     /\ NonBlank(last.name.chars))
    => LET n == lower(last.name.chars)
       IN IF n \in Keys(prev.tasks)
          THEN /\ Keys(tasks) = Keys(prev.tasks) \ {n}
               /\ \A k \in Keys(tasks) : Get(tasks, k) = Get(prev.tasks, k)
               /\ Len(tasks) = Len(prev.tasks) - 1
               /\ FileHolds(file, tasks)
               /\ last.wrote
               /\ last.exc = "none"
          ELSE /\ last.exc = "ValueError"
               /\ last.out = "Task not in tasks list."
               /\ tasks = prev.tasks
               /\ file = prev.file
               /\ ~last.wrote

C4_Witness ==
    /\ JustRan("r")
    /\ last.exc = "ValueError"
    /\ last.name.chars = <<"b">>
    /\ prev.tasks = <<>>
    /\ file = prev.file

\* C5: change_complete with a valid name flips the status of the lower-cased
\* key, persists the collection and prints "completed" exactly when the new
\* status is true; when the key is absent it raises ValueError, changes
\* nothing and writes nothing.
C5_ChangeComplete ==
    (JustRan("c") /\ NonBlank(last.name.chars))
    => LET n == lower(last.name.chars)
       IN IF n \in Keys(prev.tasks)
          THEN /\ Keys(tasks) = Keys(prev.tasks)
               /\ Len(tasks) = Len(prev.tasks)
               /\ Get(tasks, n) = ~Get(prev.tasks, n)
               /\ \A k \in Keys(tasks) \ {n} : Get(tasks, k) = Get(prev.tasks, k)
               /\ FileHolds(file, tasks)
               /\ last.wrote
               /\ last.exc = "none"
               /\ (last.out = "Task changed to completed.") = Get(tasks, n)
               /\ (last.out = "Task changed to uncompleted.") = ~Get(tasks, n)
          ELSE /\ last.exc = "ValueError"
               /\ last.out = "Task not in tasks list."
               /\ tasks = prev.tasks
               /\ file = prev.file
               /\ ~last.wrote

C5_Witness ==
    /\ JustRan("c")
    /\ last.name.chars = <<"A", "b">>
    /\ last.out = "Task changed to uncompleted."
    /\ Get(prev.tasks, <<"a", "b">>)
    /\ Len(tasks) = 2

\* The step that ends the second of two successful toggles of one task.
SecondToggle == pc = "prompt" /\ pair' = "toggle-toggle"

\* C7 as stated: after two toggles in succession the collection and the
\* persisted file equal their state before the first toggle.
C7_FileAsBeforeFirstToggle ==
    [][SecondToggle => tasks' = prev.tasks /\ file' = prev.file]_vars

\* C7 as amended: after two toggles in succession the task has its original
\* status and the collection equals its state before the first toggle; the
\* file holds exactly that collection, and equals the file before the first
\* toggle when the keys of that file were lower-case.
C7_ToggleTwice ==
    [][SecondToggle =>
          /\ tasks' = prev.tasks
          /\ FileHolds(file', prev.tasks)
          /\ (\A i \in DOMAIN prev.file.obj :
                 prev.file.obj[i].k = lower(prev.file.obj[i].k))
               => file' = prev.file]_vars

C7_Witness ==
    /\ pair = "toggle-toggle"
    /\ pc = "load"
    /\ last.name.chars = <<"A">>
    /\ Len(tasks) = 2
    /\ Get(tasks, <<"a">>)

\* The step that ends a remove_task that follows an add_task of the same name.
RemoveAfterAdd == pc = "prompt" /\ pair' \in {"add-remove", "rejected-add-remove"}

\* C8 as stated: for every collection and every name, add_task followed by
\* remove_task of the same name leaves the collection as it was before the add.
C8_AddRemoveAnyName ==
    [][RemoveAfterAdd => tasks' = prev.tasks]_vars

\* C8 as amended: add_task followed by remove_task of the same name leaves
\* the collection as it was before the add when the lower-cased name was not
\* a key before the add or is blank; when it was a key, the add is rejected
\* and the remove deletes that task.
C8_AddRemove ==
    [][RemoveAfterAdd =>
          LET n == lower(last.name.chars)
          IN IF n \in Keys(prev.tasks) /\ NonBlank(n)
             THEN /\ Keys(tasks') = Keys(prev.tasks) \ {n}
                  /\ \A k \in Keys(tasks') : Get(tasks', k) = Get(prev.tasks, k)
             ELSE tasks' = prev.tasks]_vars

C8_Witness ==
    /\ pair = "add-remove"
    /\ pc = "load"
    /\ last.exc = "none"
    /\ last.name.chars = <<"A", "b">>
    /\ Len(tasks) = 1

\* C10: a load of a missing file raises FileNotFoundError, the handler
\* writes {} to the file and calls run() again; the next load returns the
\* empty collection and the loop is at the command prompt.
C10_MissingFileRecreated ==
    [][/\ (pc = "load" /\ file.kind = "missing")
          => /\ last'.stage = "load"
             /\ last'.exc = "FileNotFoundError"
             /\ last'.out = "New tasks file was created. Try again."
             /\ file' = ObjectFile(<<>>)
             /\ pc' = "load"
             /\ depth' = depth + 1
       /\ (pc = "load" /\ last.stage = "load" /\ last.exc = "FileNotFoundError")
          => /\ pc' = "prompt"
             /\ tasks' = <<>>
             /\ file' = file]_vars

C10_Witness ==
    /\ pc = "prompt"
    /\ last.stage = "load"
    /\ last.exc = "FileNotFoundError"
    /\ tasks = <<>>
    /\ depth = 2

\* C6: remove_task and change_complete raise TypeError on a name that is
\* blank, whitespace-only or not a string, whatever the collection holds,
\* never ValueError, and leave the collection and the file unchanged.
C6_InvalidNameIsTypeError ==
    (/\ pc = "returned"
     /\ last.action \in {<<"r">>, <<"c">>}
     /\ (last.name.type # "str" \/ ~NonBlank(last.name.chars)))
    => /\ last.exc = "TypeError"
       /\ tasks = prev.tasks
       /\ file = prev.file
       /\ ~last.wrote

C6_Witness ==
    /\ pc = "returned"
    /\ last.action = <<"r">>
    /\ last.name = Str(<<" ">>)
    /\ Has(prev.tasks, <<" ">>)
    /\ last.exc = "TypeError"
    /\ tasks = prev.tasks

\* C9: dump_tasks followed by load_tasks yields the collection with its keys
\* lower-cased: the keys are the lower-cased keys of the original and each
\* carries the value of the original entry of that lower-cased key (of the
\* last such entry when several keys become equal).
C9_RoundTrip ==
    [][(pc = "dumped" /\ pc' = "returned")
       => /\ last'.exc = "none"
          /\ Keys(tasks') = {lower(k) : k \in Keys(tasks)}
          /\ Len(tasks') = Cardinality(Keys(tasks'))
          /\ \A i \in DOMAIN tasks :
               (\A j \in DOMAIN tasks :
                   j > i => lower(tasks[j].k) # lower(tasks[i].k))
               => Get(tasks', lower(tasks[i].k)) = tasks[i].v]_vars

C9_Witness ==
    /\ pc = "returned"
    /\ last.action = <<"l", "o", "a", "d">>
    /\ Len(prev.tasks) = 2
    /\ Has(prev.tasks, <<"A", "b">>)
    /\ Has(prev.tasks, <<"a">>)
    /\ Keys(tasks) = {<<"a", "b">>, <<"a">>}
    /\ Get(tasks, <<"a", "b">>)

\* C11: a store file that is not JSON is handled by the JSONDecodeError
\* clause, which writes {} to the file and calls run() again; it is never
\* handled by the ValueError clause ("Task not in tasks list.").
C11_MalformedHasOwnHandler ==
    /\ (prev.file.kind = "garbage" /\ last.stage = "load")
         => last.exc = "JSONDecodeError"
    /\ last.exc = "JSONDecodeError"
         => /\ last.stage = "load"
            /\ last.out =
                 "There was something wrong with the tasks file. Tasks were reset. Try again."
            /\ last.out # "Task not in tasks list."
            /\ last.wrote
            /\ file = ObjectFile(<<>>)
            /\ pc \in {"load", "prompt"}
            /\ depth = 2

C11_Witness ==
    /\ pc = "prompt"
    /\ prev.file.kind = "garbage"
    /\ last.exc = "JSONDecodeError"
    /\ file = ObjectFile(<<>>)
    /\ tasks = <<>>

\* A task name as the data model wants it: not blank, no upper-case letter.
WellFormedKey(k) ==
    /\ \E i \in DOMAIN k : k[i] # " "
    /\ \A i \in DOMAIN k : k[i] \notin {"A", "B", "E", "Y"}

\* C12: started on the store {}, at every point the keys of the collection
\* and of the file are non-blank strings without upper-case letters, no two
\* keys are equal and every value is a boolean.
C12_KeysNormalised ==
    /\ file.kind = "object"
    /\ \A i \in DOMAIN tasks :
         /\ WellFormedKey(tasks[i].k)
         /\ tasks[i].v \in BOOLEAN
         /\ \A j \in DOMAIN tasks : tasks[j].k = tasks[i].k => j = i
    /\ \A i \in DOMAIN file.obj :
         /\ WellFormedKey(file.obj[i].k)
         /\ file.obj[i].lit \in {"true", "false"}
         /\ \A j \in DOMAIN file.obj : file.obj[j].k = file.obj[i].k => j = i

C12_Witness ==
    /\ pc = "prompt"
    /\ Len(tasks) = 3
    /\ Len(file.obj) = 3
    /\ Keys(tasks) = {<<"a">>, <<"b">>, <<"a", "b">>}
    /\ last.name.chars = <<"A", "b">>

\* C14: load_tasks returns the dict whose keys are the lower-cased keys of
\* the file's object, one entry per lower-cased key; a key that several file
\* keys lower-case to carries the value of the last of them in file order.
C14_LoadLastWins ==
    [][(pc = "load" /\ pc' = "prompt")
       => /\ Keys(tasks') = {lower(file.obj[i].k) : i \in DOMAIN file.obj}
          /\ Len(tasks') = Cardinality(Keys(tasks'))
          /\ \A i \in DOMAIN file.obj :
               (\A j \in DOMAIN file.obj :
                   j > i => lower(file.obj[j].k) # lower(file.obj[i].k))
               => Get(tasks', lower(file.obj[i].k)) = (file.obj[i].lit = "true")]_vars

C14_Witness ==
    /\ pc = "prompt"
    /\ file = ObjectFile(<<[k |-> <<"A">>, lit |-> "true"],
                           [k |-> <<"a">>, lit |-> "false"]>>)
    /\ tasks = <<[k |-> <<"a">>, v |-> FALSE]>>

\* C15: once an 'e' command is confirmed the process only returns from the
\* nested invocations of run(), one at each step, and ends: no further load
\* or prompt, and the store is left alone, whatever the depth.
C15_ConfirmedEndTerminates ==
    [][/\ (pc = "prompt" /\ last'.action = <<"e">> /\ lower(last'.sure) = <<"y">>)
          => pc' = "returning" /\ depth' = depth
       /\ pc = "returning"
          => /\ pc' = IF depth = 1 THEN "terminated" ELSE "returning"
             /\ depth' = depth - 1
             /\ file' = file
             /\ tasks' = tasks
       /\ pc = "terminated" => UNCHANGED vars]_vars

\* The end is confirmed in the third invocation of run(), two error
\* restarts deep.
C15_Witness ==
    /\ pc = "returning"
    /\ depth = 3
    /\ last.action = <<"e">>
    /\ last.sure = <<"Y">>

\* C13: validate_input returns True exactly for a string with a character
\* that is not whitespace, False for every other value; it raises nothing
\* and touches neither the collection nor the file.
C13_ValidateInput ==
    (pc = "returned" /\ last.action = <<"v">>)
    => /\ last.out \in {"True", "False"}
       /\ (last.out = "True")
            = (last.name.type = "str" /\ NonBlank(last.name.chars))
       /\ last.exc = "none"
       /\ ~last.wrote
       /\ tasks = prev.tasks
       /\ file = prev.file

C13_Witness ==
    /\ pc = "returned"
    /\ last.action = <<"v">>
    /\ last.name = Str(<<" ", " ">>)
    /\ last.out = "False"

\* An affirmative answer to "Are you sure? (y/n)".
Yes == {<<"y">>, <<"Y">>}

Letters == {<<"l">>, <<"c">>, <<"a">>, <<"r">>, <<"e">>}

\* A cycle on a path that is not a confirmed mutation: list, a wrong
\* letter, a remove or an end that is not confirmed.
NonMutating(c) ==
    /\ c.stage = "command"
    /\ \/ c.action = <<"l">>
       \/ c.action \notin Letters
       \/ c.action \in {<<"r">>, <<"e">>} /\ c.sure \notin Yes

\* C16: list, a wrong letter, an unconfirmed remove and an unconfirmed end
\* leave the file and the collection as they were, run no mutator (nothing
\* is written, raised or reported by one) and put the loop back at the top
\* of its while loop, from where the load succeeds.
C16_NonMutatingPaths ==
    (NonMutating(last) /\ pc # "prompt")
    => /\ file = prev.file
       /\ tasks = prev.tasks
       /\ ~last.wrote
       /\ last.exc = "none"
       /\ last.out = (CASE last.action = <<"l">> -> "CURRENT TASKS:"
                        [] last.action \notin Letters -> "Wrong letter provided."
                        [] OTHER -> "")
       /\ pc = "load"
       /\ file.kind = "object"

C16_Witness ==
    /\ pc = "load"
    /\ last.stage = "command"
    /\ last.action = <<"r">>
    /\ last.sure = <<"n">>
    /\ last.name.chars = <<"A">>
    /\ Has(tasks, <<"a">>)
    /\ Len(file.obj) = 2

\* The collection t is the object of file f with its keys lower-cased.
LoweredFile(f, t) ==
    /\ f.kind = "object"
    /\ Keys(t) = {lower(f.obj[i].k) : i \in DOMAIN f.obj}
    /\ \A i \in DOMAIN t : \A j \in DOMAIN t : t[i].k = t[j].k => i = j
    /\ \A k \in Keys(t) :
         LET hits == {i \in DOMAIN f.obj : lower(f.obj[i].k) = k}
             i == CHOOSE i \in hits : \A j \in hits : j <= i
         IN Get(t, k) = (f.obj[i].lit = "true")

Mutators == {<<"a">>, <<"r">>, <<"c">>}

Succeeded(c) ==
    c.out \in {"Task was added.", "Task removed.", "Task changed to completed.",
               "Task changed to uncompleted."}

\* C17: at the prompt of every cycle the collection is the file's content
\* with keys lower-cased; after a successful add, remove or toggle the file
\* holds the mutated collection; after a failed or rejected one the file is
\* what it was before the command.
C17_MemoryMatchesFile ==
    /\ pc = "prompt" => LoweredFile(file, tasks)
    /\ (last.stage = "command" /\ pc # "prompt" /\ last.action \in Mutators
          /\ (last.action = <<"r">> => last.sure \in Yes))
       => IF Succeeded(last)
          THEN FileHolds(file, tasks) /\ last.wrote
          ELSE file = prev.file /\ ~last.wrote

C17_Witness ==
    /\ pc = "prompt"
    /\ last.action = <<"c">>
    /\ last.out = "Task changed to completed."
    /\ Len(tasks) = 2
    /\ Len(prev.file.obj) = 2
    /\ prev.file.obj[1].k = <<"A">>

\* C18 as stated: after a load that failed, whatever the reason, the handler
\* has left a store file that load_tasks accepts.
C18_FailedLoadLeavesLoadableFile ==
    (last.stage = "load" /\ last.exc # "none")
    => file.kind = "object" /\ pc # "crashed"

\* A cycle that failed on what the user typed.
UserFailure(c) ==
    /\ c.stage = "command"
    /\ \/ c.exc \in {"TypeError", "ValueError"}
       \/ c.out \in {"Task already exists.", "Wrong letter provided."}
       \/ c.action \in {<<"r">>, <<"e">>} /\ c.sure \notin Yes

LoweredKeysOf(f) == {lower(f.obj[i].k) : i \in DOMAIN f.obj}

\* C19: a cycle that fails on the user's input (blank name, name not in the
\* list, duplicate add, wrong letter, declined confirmation) writes nothing
\* and changes no task; a task leaves the file only by a confirmed remove of
\* it, and the file is reset to {} only when it was missing or not JSON.
C19_TasksLostOnlyByRemoveOrReset ==
    [][/\ (pc = "prompt" /\ UserFailure(last'))
          => file' = file /\ tasks' = tasks /\ ~last'.wrote
       /\ (file.kind = "object" /\ LoweredKeysOf(file) # {}
             /\ ~(LoweredKeysOf(file) \subseteq LoweredKeysOf(file')))
          => /\ pc = "prompt"
             /\ last'.action = <<"r">>
             /\ last'.sure \in Yes
             /\ last'.out = "Task removed."
             /\ LoweredKeysOf(file) \ LoweredKeysOf(file')
                  = {lower(last'.name.chars)}
       /\ (file' # file /\ last'.stage = "load")
          => file.kind \in {"missing", "garbage"} /\ file' = ObjectFile(<<>>)]_vars

C19_Witness ==
    /\ pc = "load"
    /\ last.stage = "command"
    /\ last.action = <<"r">>
    /\ last.sure = <<"y">>
    /\ last.exc = "ValueError"
    /\ file = prev.file
    /\ Len(file.obj) = 2
    /\ depth = 2

\* C20: a successful add, remove or toggle of a name touches only the entry
\* of the lower-cased name: an added task comes last, a removed one leaves
\* the others in their order, a toggled one keeps its place, and every other
\* task keeps its name and status.
C20_OnlyTheNamedEntry ==
    (/\ last.stage = "command" /\ pc # "prompt"
     /\ last.action \in Mutators /\ Succeeded(last))
    => LET n == lower(last.name.chars)
           old == prev.tasks
       IN CASE last.action = <<"a">>
                 -> /\ Len(tasks) = Len(old) + 1
                    /\ SubSeq(tasks, 1, Len(old)) = old
                    /\ tasks[Len(tasks)] = [k |-> n, v |-> FALSE]
            [] last.action = <<"r">>
                 -> \E i \in DOMAIN old :
                      /\ old[i].k = n
                      /\ tasks = SubSeq(old, 1, i - 1) \o SubSeq(old, i + 1, Len(old))
            [] OTHER
                 -> /\ Len(tasks) = Len(old)
                    /\ \A i \in DOMAIN old :
                         /\ tasks[i].k = old[i].k
                         /\ tasks[i].v = IF old[i].k = n THEN ~old[i].v ELSE old[i].v

C20_Witness ==
    /\ pc = "load"
    /\ last.action = <<"c">>
    /\ last.name.chars = <<"A">>
    /\ Len(tasks) = 3
    /\ tasks[1] = [k |-> <<"a">>, v |-> TRUE]
    /\ ~prev.tasks[1].v

====
